---------------------------- MODULE Spec2Model ----------------------------
(***************************************************************************)
(* AquaSentinel backend: the monitoring loop (main.background_monitoring), *)
(* its lifecycle (main.lifespan), the WebSocket fan-out                    *)
(* (main.WebSocketManager), the reading source and the store               *)
(* (sensors.SensorManager) and the analysis the loop runs                  *)
(* (ml_model_simple.analyze_water_quality); and, called on their own, the  *)
(* validator, the filter predictor, the quality scorer and the two anomaly *)
(* detectors (ml_model_simple.SimpleAnomalyDetector, which the loop uses,  *)
(* and ml_model.AnomalyDetector, which keeps a baseline); and the hardware *)
(* and drone controllers (controller.HardwareController, DroneController). *)
(*                                                                         *)
(* Specifications:                                                         *)
(*   Spec          the monitoring loop, its lifecycle and the fan-out      *)
(*   SpecAnalysis  the analysis components, one call at a time             *)
(*   SpecValve     concurrent control_valve calls up to the hourly limit   *)
(*   SpecStop      valve, filter and emergency stop calls interleaved      *)
(*   SpecDrone     dispatch_drone and the completion of missions           *)
(*                                                                         *)
(* Units.  The source computes on floats; the model keeps integers:        *)
(*   tds, orp, temperature   as in the source (ppm, mV, degrees C)         *)
(*   ph                      in tenths  (6.5 -> 65)                        *)
(*   turbidity               in hundredths  (1.0 NTU -> 100, 0.15 -> 15)   *)
(*   scores, reported values in tenths  (70.0 -> 700)                      *)
(*   saturation before it is rounded, in hundredths  (79.96 -> 7996)       *)
(*   time                    in units of the 30 s tick sleep               *)
(* A float NaN is the value NaN below; every comparison with it is false,  *)
(* as in Python.                                                           *)
(***************************************************************************)
EXTENDS Integers, Sequences, FiniteSets, TLC

(***************************************************************************)
(* Bounds of the model.                                                    *)
(***************************************************************************)
MaxTicks == 2
MaxConns == 2

(***************************************************************************)
(* Program constants.                                                      *)
(***************************************************************************)
TickSleep == 30
BackoffSleep == 60
AnalysisEvery == 10
CountWindowHours == 1
AnalysisWindowHours == 24

TicksPerHour == 3600 \div TickSleep
NaN == 0 - 1000000
ConnIds == 1..MaxConns
Params == <<"tds", "ph", "orp", "turbidity">>

(***************************************************************************)
(* Python float comparisons: false as soon as one side is NaN.             *)
(***************************************************************************)
Lt(a, b) == a # NaN /\ b # NaN /\ a < b
Gt(a, b) == a # NaN /\ b # NaN /\ a > b
Le(a, b) == a # NaN /\ b # NaN /\ a <= b
Abs(x) == IF x < 0 THEN 0 - x ELSE x
Min2(a, b) == IF a < b THEN a ELSE b
\* max(0, x) of Python: 0 when x is NaN (nan > 0 is false)
Max0(x) == IF Gt(x, 0) THEN x ELSE 0

(***************************************************************************)
(* sensors.SensorReading, without its timestamp.                           *)
(***************************************************************************)
Values(t, p, o, u, c) ==
    [tds |-> t, ph |-> p, orp |-> o, turbidity |-> u, temperature |-> c]

SensorReading(ts, v) ==
    [timestamp |-> ts, tds |-> v.tds, ph |-> v.ph, orp |-> v.orp,
     turbidity |-> v.turbidity, temperature |-> v.temperature]

\* _simulate_sensor_data draws uniformly from tds [150,300], ph [6.5,8.5],
\* orp [200,600], turbidity [0.1,1.0], temperature [20,25]; every point of
\* that box passes validate_reading and detect_anomalies alike, and the
\* loop is run on its midpoint.
SimulatedValues == { Values(225, 72, 450, 20, 22) }

(***************************************************************************)
(* A serial response "TDS:250.5,pH:7.2,..." is a sequence of pairs; a pair *)
(* is well formed when it splits in two at ':' and its value is accepted   *)
(* by float() (which accepts "nan").                                       *)
(***************************************************************************)
Pair(k, v) == [key |-> k, wellformed |-> TRUE, value |-> v]
BadPair == [key |-> "tds", wellformed |-> FALSE, value |-> 0]

RespGood == << Pair("tds", 225), Pair("ph", 72), Pair("orp", 450),
               Pair("turb", 20), Pair("temp", 22) >>
RespMissing == << Pair("tds", 250), Pair("ph", 72) >>
RespNaN == << Pair("tds", NaN), Pair("ph", 72), Pair("orp", 350),
              Pair("turb", 50), Pair("temp", 22) >>
RespGarbled == << Pair("tds", 250), BadPair >>

Responses == { RespGood, RespMissing, RespNaN, RespGarbled }

Keys(resp) == { resp[i].key : i \in 1..Len(resp) }

\* data[key] after the loop over the pairs: the last pair of that key wins
DataGet(resp, k, default) ==
    IF k \in Keys(resp)
    THEN LET i == CHOOSE j \in 1..Len(resp) :
                     /\ resp[j].key = k
                     /\ \A m \in (j+1)..Len(resp) : resp[m].key # k
         IN resp[i].value
    ELSE default

\* The response names all five values and all are finite.
WellFormedResponse(resp) ==
    /\ \A i \in 1..Len(resp) : resp[i].wellformed /\ resp[i].value # NaN
    /\ {"tds", "ph", "orp", "turb", "temp"} \subseteq Keys(resp)

None == [none |-> TRUE]
Some(v) == [none |-> FALSE, values |-> v]

\* SensorManager._parse_sensor_response: None when a pair does not parse,
\* otherwise a reading with defaults for the keys the response lacks.
parse_sensor_response(resp) ==
    IF \E i \in 1..Len(resp) : ~resp[i].wellformed
    THEN None
    ELSE Some(Values(DataGet(resp, "tds", 0), DataGet(resp, "ph", 70),
                     DataGet(resp, "orp", 0), DataGet(resp, "turb", 0),
                     DataGet(resp, "temp", 20)))

(***************************************************************************)
(* SensorManager.validate_reading: the warnings, as a set of               *)
(* <<parameter, which bound>>.                                             *)
(***************************************************************************)
\* validate_reading with the ORP range of its comment ("Good water:
\* 200-600 mV") instead of the 800 it tests.
validate_reading_OrpOfComment(r) ==
    (IF Lt(r.ph, 65) THEN {<<"ph", "low">>}
     ELSE IF Gt(r.ph, 85) THEN {<<"ph", "high">>} ELSE {})
    \cup
    (IF Gt(r.tds, 600) THEN {<<"tds", "high">>}
     ELSE IF Lt(r.tds, 50) THEN {<<"tds", "low">>} ELSE {})
    \cup
    (IF Gt(r.turbidity, 100) THEN {<<"turbidity", "high">>} ELSE {})
    \cup
    (IF Lt(r.orp, 200) THEN {<<"orp", "low">>}
     ELSE IF Gt(r.orp, 600) THEN {<<"orp", "high">>} ELSE {})

validate_reading(r) ==
    (IF Lt(r.ph, 65) THEN {<<"ph", "low">>}
     ELSE IF Gt(r.ph, 85) THEN {<<"ph", "high">>} ELSE {})
    \cup
    (IF Gt(r.tds, 600) THEN {<<"tds", "high">>}
     ELSE IF Lt(r.tds, 50) THEN {<<"tds", "low">>} ELSE {})
    \cup
    (IF Gt(r.turbidity, 100) THEN {<<"turbidity", "high">>} ELSE {})
    \cup
    (IF Lt(r.orp, 200) THEN {<<"orp", "low">>}
     ELSE IF Gt(r.orp, 800) THEN {<<"orp", "high">>} ELSE {})

(***************************************************************************)
(* The store: sensor_readings rows in insertion order.                     *)
(***************************************************************************)
RECURSIVE SortDesc(_)
\* ORDER BY timestamp DESC over a set of rows with distinct timestamps
SortDesc(rows) ==
    IF rows = {} THEN << >>
    ELSE LET top == CHOOSE r \in rows :
                        \A q \in rows : q.timestamp <= r.timestamp
         IN << top >> \o SortDesc(rows \ {top})

Rows(table) == { table[i] : i \in 1..Len(table) }

\* SensorManager.get_recent_readings(hours) at time `clock`
get_recent_readings(table, clock, hours) ==
    SortDesc({ r \in Rows(table) :
                 r.timestamp >= clock - hours * TicksPerHour })

(***************************************************************************)
(* ml_model_simple: the analysis the loop imports (main.py line 23).       *)
(***************************************************************************)
\* random.uniform(-5, 5) of predict_saturation, in hundredths of a percent:
\* its two ends, no noise, and two draws a little under one percent
NoiseValues == { 0 - 500, 0, 73, 76, 500 }

Last(s) == s[Len(s)]

\* round(x, 1) of x in hundredths, in tenths.  No value of the model lies
\* half way between two tenths.
Round1(x) == (x + 5) \div 10

\* SimpleFilterPredictor.predict_saturation; `noise` is the value its
\* random.uniform(-5, 5) returns.  saturation is in hundredths of a percent,
\* days_remaining = (80 - saturation) / 1.5 is rounded to tenths of a day.
\* The result for an empty list is the error value.
predict_saturation(readings, days_since_replacement, noise) ==
    IF readings = << >> THEN [error |-> TRUE]
    ELSE LET latest == Last(readings)
             base == Min2(days_since_replacement * 120, 9000)
                     + (IF Gt(latest.tds, 300) THEN 1000 ELSE 0)
                     + (IF Gt(latest.turbidity, 50) THEN 1500 ELSE 0)
                     + (IF Lt(latest.ph, 65) \/ Gt(latest.ph, 85)
                        THEN 500 ELSE 0)
             saturation == Min2(base + noise, 10000)
         IN [error |-> FALSE,
             saturation_percent |-> Round1(saturation),
             days_until_replacement |->
                 IF saturation < 8000
                 THEN ((8000 - saturation) * 2 + 15) \div 30 ELSE 0,
             replacement_needed |-> saturation >= 8000,
             confidence |-> IF saturation > 2000 THEN "high" ELSE "medium"]

\* SimpleAnomalyDetector.detect_anomalies: the flagged parameters, in the
\* order the dict receives them.
detect_anomalies(r) ==
    LET flagged(p) ==
          CASE p = "tds" -> Lt(r.tds, 50) \/ Gt(r.tds, 800)
            [] p = "ph" -> Lt(r.ph, 60) \/ Gt(r.ph, 90)
            [] p = "orp" -> Lt(r.orp, 100) \/ Gt(r.orp, 900)
            [] p = "turbidity" -> Gt(r.turbidity, 500)
    IN SelectSeq(Params, flagged)

\* SimpleWaterQualityOptimizer._calculate_quality_score, in tenths.  The
\* four sub-scores are exact in tenths; their mean is rounded to one
\* decimal (a mean of 69.95 becomes 70.0).
\* A sub-score that decays from the optimal point on, inside the band too.
SubScore_DecaysInBand(inBand, distance) ==
    IF distance = NaN THEN 0 ELSE Max0(1000 - distance)

SubScore(inBand, distance) ==
    IF inBand THEN 1000
    ELSE IF distance = NaN THEN 0 ELSE Max0(1000 - distance)

\* The list `scores` of _calculate_quality_score
quality_scores(tds, ph, orp, turbidity) ==
    LET tds_score == SubScore(Le(150, tds) /\ Le(tds, 300),
                              IF tds = NaN THEN NaN ELSE Abs(tds - 225) * 5)
        ph_score == SubScore(Le(65, ph) /\ Le(ph, 85),
                             IF ph = NaN THEN NaN ELSE Abs(ph - 72) * 20)
        orp_score == SubScore(Le(300, orp) /\ Le(orp, 600),
                              IF orp = NaN THEN NaN ELSE Abs(orp - 450) * 2)
        turb_score == SubScore(Le(turbidity, 100),
                               IF turbidity = NaN THEN NaN
                               ELSE (turbidity - 100) * 5)
    IN << tds_score, ph_score, orp_score, turb_score >>

calculate_quality_score(tds, ph, orp, turbidity) ==
    LET scores == quality_scores(tds, ph, orp, turbidity)
    IN (scores[1] + scores[2] + scores[3] + scores[4] + 2) \div 4

\* A status scale whose "acceptable" reaches down to 60.
get_overall_status_AcceptableFrom60(score) ==
    IF score >= 900 THEN "excellent"
    ELSE IF score >= 800 THEN "good"
    ELSE IF score >= 600 THEN "acceptable"
    ELSE "critical"

\* SimpleWaterQualityOptimizer._get_overall_status
get_overall_status(score) ==
    IF score >= 900 THEN "excellent"
    ELSE IF score >= 800 THEN "good"
    ELSE IF score >= 700 THEN "acceptable"
    ELSE IF score >= 600 THEN "poor"
    ELSE "critical"

\* One alert.  Of its message the model keeps what is interpolated into
\* it: the parameter an anomaly alert names ("" in the other alerts) and
\* the value shown.
Alert(type, severity, param, value) ==
    [type |-> type, severity |-> severity, param |-> param, value |-> value]

\* analyze_water_quality that reports on an empty list as on any other.
analyze_water_quality_NoEmptyCheck(readings, noise) ==
    [error |-> FALSE,
     alerts |-> << [type |-> "filter_replacement", severity |-> "high"] >>]

\* One entry of `actions`.  The source's dicts name the second field
\* parameter, chemical, method or action and the third change or amount; the
\* backwash directive has no third field.
Action(type, subject, change) ==
    [type |-> type, subject |-> subject, change |-> change]

\* SimpleWaterQualityOptimizer.get_optimization_recommendations
get_optimization_recommendations(r) ==
    LET tds_rule ==
            IF Gt(r.tds, 300)
            THEN << [text |-> "TDS high - increase RO filtration",
                     action |-> Action("filter_adjustment", "ro_pressure",
                                       "+10%")] >>
            ELSE IF Lt(r.tds, 150)
            THEN << [text |-> "TDS low - add mineral cartridge",
                     action |-> Action("filter_adjustment",
                                       "mineral_addition", "enable")] >>
            ELSE << >>
        ph_rule ==
            IF Gt(r.ph, 85)
            THEN << [text |-> "pH high - activate acid injection",
                     action |-> Action("chemical_dosing", "acid", "low")] >>
            ELSE IF Lt(r.ph, 65)
            THEN << [text |-> "pH low - activate alkaline injection",
                     action |-> Action("chemical_dosing", "alkaline",
                                       "low")] >>
            ELSE << >>
        orp_rule ==
            IF Lt(r.orp, 300)
            THEN << [text |-> "ORP low - increase disinfection",
                     action |-> Action("disinfection", "chlorine",
                                       "+20%")] >>
            ELSE << >>
        turbidity_rule ==
            IF Gt(r.turbidity, 100)
            THEN << [text |-> "Turbidity high - backwash filters",
                     action |-> Action("filter_maintenance", "backwash",
                                       "")] >>
            ELSE << >>
        fired == tds_rule \o ph_rule \o orp_rule \o turbidity_rule
        quality_score ==
            calculate_quality_score(r.tds, r.ph, r.orp, r.turbidity)
    IN [recommendations |->
            IF fired = << >>
            THEN << "Water quality within optimal ranges" >>
            ELSE [i \in 1..Len(fired) |-> fired[i].text],
        actions |-> [i \in 1..Len(fired) |-> fired[i].action],
        quality_score |-> quality_score,
        overall_status |-> get_overall_status(quality_score)]

\* reading.<param>
ValueOf(r, p) ==
    CASE p = "tds" -> r.tds
      [] p = "ph" -> r.ph
      [] p = "orp" -> r.orp
      [] p = "turbidity" -> r.turbidity
      [] p = "temperature" -> r.temperature

\* Alerts appended with the quality alert first.
generate_alerts_QualityFirst(latest_reading, filter_analysis, anomalies, optimization) ==
    (IF optimization.quality_score < 700
     THEN << Alert("water_quality", "medium", "",
                   optimization.quality_score) >> ELSE << >>)
    \o [i \in 1..Len(anomalies) |->
           Alert("sensor_anomaly", "high", anomalies[i],
                 ValueOf(latest_reading, anomalies[i]))]
    \o (IF filter_analysis.replacement_needed
        THEN << Alert("filter_replacement", "high", "",
                      filter_analysis.saturation_percent) >> ELSE << >>)

\* The alerts analyze_water_quality appends, in the order it appends them.
generate_alerts(latest_reading, filter_analysis, anomalies, optimization) ==
    (IF filter_analysis.replacement_needed
     THEN << Alert("filter_replacement", "high", "",
                   filter_analysis.saturation_percent) >> ELSE << >>)
    \o [i \in 1..Len(anomalies) |->
           Alert("sensor_anomaly", "high", anomalies[i],
                 ValueOf(latest_reading, anomalies[i]))]
    \o (IF optimization.quality_score < 700
        THEN << Alert("water_quality", "medium", "",
                      optimization.quality_score) >> ELSE << >>)

\* analyze_water_quality(readings, filter_usage_hours,
\* days_since_replacement): everything it returns but the timestamp.
analyze_water_quality_report(readings, days_since_replacement, noise) ==
    IF readings = << >> THEN [error |-> TRUE, alerts |-> << >>]
    ELSE LET latest_reading == Last(readings)
             filter_analysis ==
                 predict_saturation(readings, days_since_replacement, noise)
             anomalies == detect_anomalies(latest_reading)
             optimization == get_optimization_recommendations(latest_reading)
         IN [error |-> FALSE,
             current_readings |-> latest_reading,
             filter_analysis |-> filter_analysis,
             anomalies |-> anomalies,
             optimization |-> optimization,
             alerts |-> generate_alerts(latest_reading, filter_analysis,
                                        anomalies, optimization)]

\* analyze_water_quality(readings) with the loop's defaults
\* (filter_usage_hours = 0, days_since_replacement = 0): the fields of the
\* report the loop reads.
analyze_water_quality(readings, noise) ==
    LET report == analyze_water_quality_report(readings, 0, noise)
    IN IF report.error THEN report
       ELSE [error |-> FALSE,
             current_readings |-> report.current_readings,
             alerts |-> report.alerts]

(***************************************************************************)
(* ml_model.AnomalyDetector: the detector with a baseline.  (main.py       *)
(* imports ml_model_simple; ml_model.analyze_water_quality is the caller   *)
(* of this one.)                                                           *)
(*                                                                         *)
(* The statistics of update_baseline are kept exactly: for the n values of *)
(* a parameter, their sum and the sum of their squares stand for mean and  *)
(* std (mean = sum / n, std^2 = (n * sumsq - sum^2) / n^2, numpy's         *)
(* population std), and median, q25, q75 are kept times four (numpy's      *)
(* percentile interpolates linearly between two neighbours, in quarters    *)
(* of their distance).                                                     *)
(***************************************************************************)
AllParams == <<"tds", "ph", "orp", "turbidity", "temperature">>
ParamSet == { AllParams[i] : i \in 1..Len(AllParams) }

anomaly_thresholds ==
    [tds |-> [min |-> 50, max |-> 800],
     ph |-> [min |-> 60, max |-> 90],
     orp |-> [min |-> 100, max |-> 900],
     turbidity |-> [min |-> 0, max |-> 500],
     temperature |-> [min |-> 10, max |-> 35]]

\* self.baseline_stats = {}: no parameter has statistics
NoStats == [set |-> FALSE]
EmptyBaseline == [p \in ParamSet |-> NoStats]

RECURSIVE SumSeq(_)
SumSeq(s) == IF s = << >> THEN 0 ELSE s[1] + SumSeq(Tail(s))

RECURSIVE SortAsc(_)
SortAsc(s) ==
    IF s = << >> THEN << >>
    ELSE LET i == CHOOSE j \in 1..Len(s) :
                     /\ \A k \in 1..Len(s) : s[j] <= s[k]
                     /\ \A k \in 1..(j-1) : s[k] # s[j]
         IN << s[i] >> \o SortAsc(SubSeq(s, 1, i-1) \o SubSeq(s, i+1, Len(s)))

\* np.percentile(values, 25 * k), times four, of the sorted values
Percentile4(sorted, k) ==
    LET pos4 == (Len(sorted) - 1) * k
        i == pos4 \div 4 + 1
        r == pos4 % 4
    IN IF r = 0 THEN 4 * sorted[i]
       ELSE 4 * sorted[i] + r * (sorted[i + 1] - sorted[i])

Statistics(values) ==
    LET sorted == SortAsc(values)
    IN [set |-> TRUE,
        n |-> Len(values),
        sum |-> SumSeq(values),
        sumsq |-> SumSeq([i \in 1..Len(values) |-> values[i] * values[i]]),
        median4 |-> Percentile4(sorted, 2),
        q25x4 |-> Percentile4(sorted, 1),
        q75x4 |-> Percentile4(sorted, 3)]

\* readings[-n:]
LastN(s, n) == IF Len(s) <= n THEN s ELSE SubSeq(s, Len(s) - n + 1, Len(s))

\* update_baseline that computes its statistics from any history.
AnomalyDetector_update_baseline_NoMinimum(stats, readings) ==
    IF readings = << >> THEN stats
    ELSE [p \in ParamSet |->
            Statistics([i \in 1..Len(LastN(readings, 50)) |->
                           LastN(readings, 50)[i][p]])]

\* AnomalyDetector.update_baseline: the new value of baseline_stats
AnomalyDetector_update_baseline(stats, readings) ==
    IF Len(readings) < 10 THEN stats
    ELSE [p \in ParamSet |->
            Statistics([i \in 1..Len(LastN(readings, 50)) |->
                           LastN(readings, 50)[i][p]])]

\* The outlier test with >= for >.
Outlier_NotStrict(stats, value) ==
    /\ value # NaN
    /\ (stats.n * value - stats.sum) * (stats.n * value - stats.sum)
           >= 9 * (stats.n * stats.sumsq - stats.sum * stats.sum)

\* abs(value - stats['mean']) > 3 * stats['std'], both sides times n and
\* squared
Outlier(stats, value) ==
    /\ value # NaN
    /\ (stats.n * value - stats.sum) * (stats.n * value - stats.sum)
           > 9 * (stats.n * stats.sumsq - stats.sum * stats.sum)

\* abs(value - stats['median']) > 2 * iqr, both sides times four
Deviates(stats, value) ==
    /\ value # NaN
    /\ Abs(4 * value - stats.median4) > 2 * (stats.q75x4 - stats.q25x4)

\* abs(value - stats['mean']) / stats['std'] of the outlier message: both
\* are numpy float64, whose division by zero gives inf (and a warning), not
\* an exception.
StdDevsFromMean(stats, value) ==
    IF stats.n * stats.sumsq = stats.sum * stats.sum THEN "inf" ELSE "finite"

\* AnomalyDetector.detect_anomalies.  For each parameter the message the
\* dict ends with: "range" (absolute thresholds, then `continue`),
\* "outlier", "deviation" (which overwrites "outlier"), or "none" when the
\* parameter is no key of the dict.
AnomalyDetector_detect_anomalies(stats, r) ==
    LET message(p) ==
          IF Lt(r[p], anomaly_thresholds[p].min)
             \/ Gt(r[p], anomaly_thresholds[p].max)
          THEN "range"
          ELSE IF ~stats[p].set THEN "none"
          ELSE IF Deviates(stats[p], r[p]) THEN "deviation"
          ELSE IF Outlier(stats[p], r[p]) THEN "outlier"
          ELSE "none"
        divisions == { StdDevsFromMean(stats[p], r[p]) :
                         p \in { q \in ParamSet :
                                   /\ message(q) # "range"
                                   /\ stats[q].set
                                   /\ Outlier(stats[q], r[q]) } }
    IN [raised |-> "ZeroDivisionError" \in divisions,
        anomalies |-> [p \in ParamSet |-> message(p)]]

(***************************************************************************)
(* State.                                                                  *)
(***************************************************************************)
VARIABLES
    lifespan_pc,        \* main.lifespan: "startup", "serving", "shutdown"
    pc,                 \* the background_monitoring task, see LoopPcs
    monitoring_active,  \* main.monitoring_active
    serial_open,        \* serial_connection is set and is_open
    table,              \* the sensor_readings table
    now,                \* the wall clock
    ticks,              \* iterations started so far
    reading,            \* the loop's local `reading`
    warnings,           \* the loop's local `warnings`
    recent_readings,    \* the loop's local `recent_readings`
    analysis,           \* the loop's local `analysis`
    active_connections, \* WebSocketManager.active_connections
    endpoints,          \* connection id -> state of its websocket_endpoint
    broadcast_pc,       \* WebSocketManager.broadcast: "idle", "loop",
                        \* "send", "cleanup", "returned"
    iter,               \* index the list iterator of broadcast reads next
    disconnected,       \* broadcast's local `disconnected`
    sending,            \* the connection whose send_text is awaited
    \* history variables
    stop_requested,     \* shutdown has set monitoring_active to False
    trace,              \* the stages of the current tick, in order
    malformed,          \* the current tick's response was not well formed
    save_failed,        \* the current tick's save_reading returned False
    streak,             \* the sleeps ("tick" or "backoff") of the ticks
                        \* without reading since the last reading
    stayed,             \* connected since the current broadcast began
    received,           \* received the current broadcast's message
    \* the analysis components, called on their own
    baseline_stats,     \* ml_model.anomaly_detector.baseline_stats
    simple_baseline_stats, \* ml_model_simple.anomaly_detector.baseline_stats
    call,               \* the call in progress: function and arguments
    result,             \* what that call returns
    fed,                \* history variable: per detector, the last history
                        \* of 10 or more readings given to update_baseline
    scored,             \* history variable: the first scoring of a probe
                        \* reading, and what it returned
    published,          \* history variable: the alerts the current tick
                        \* gave to iot_hub.publish_alert
    \* controller.hardware_controller
    hw_serial_open,     \* serial_connection is set and is_open
    status,             \* ControllerStatus
    valve_state,        \* ValveState
    filter_position,    \* FilterPosition
    valve_operation_count,
    window_elapsed,     \* more than 3600 s since valve_count_reset_time
    command_history,    \* command_history[-1:], the commands only
    tasks,              \* per caller: the call it has in flight and where
                        \* that call is suspended
    sleepers,           \* the callers in an asyncio.sleep(0.1), in the order
                        \* their sleeps began
    last_return,        \* the call that returned last and what it returned
    estop_clean,        \* history variable: an emergency stop has returned
                        \* success and no valve or filter call began since
    \* controller.drone_controller
    drone_status,
    mission_counter,
    active_missions,    \* the status of each mission, by its number
    minute,             \* datetime.now().minute
    completions,        \* the missions whose _simulate_mission_completion
                        \* task sleeps
    dispatch_result     \* what the last dispatch_drone returned

vars == << lifespan_pc, pc, monitoring_active, serial_open, table, now,
           ticks, reading, warnings, recent_readings, analysis,
           active_connections, endpoints, broadcast_pc, iter, disconnected,
           sending, stop_requested, trace, malformed, save_failed,
           streak, stayed, received, baseline_stats, simple_baseline_stats,
           call, result, fed, scored, published,
           hw_serial_open, status, valve_state, filter_position,
           valve_operation_count, window_elapsed, command_history, tasks,
           sleepers, last_return, estop_clean,
           drone_status, mission_counter, active_missions, minute,
           completions, dispatch_result >>

lifeVars == << lifespan_pc, monitoring_active, stop_requested >>
storeVars == << table >>
tickVars == << reading, warnings, recent_readings, analysis, malformed,
              save_failed >>
wsVars == << active_connections, endpoints, broadcast_pc, iter,
             disconnected, sending, stayed, received >>
logVars == << streak >>
hwVars == << hw_serial_open, status, valve_state, filter_position,
             valve_operation_count, window_elapsed, command_history, tasks,
             sleepers, last_return, estop_clean >>
droneVars == << drone_status, mission_counter, active_missions, minute,
                completions, dispatch_result >>
ctlVars == << hwVars, droneVars >>
analysisVars == << baseline_stats, simple_baseline_stats, call, result, fed,
                  scored >>
compVars == << analysisVars, ctlVars >>
libVars == << compVars, published >>
monVars == << lifespan_pc, pc, monitoring_active, serial_open, table, now,
              ticks, reading, warnings, recent_readings, analysis,
              active_connections, endpoints, broadcast_pc, iter,
              disconnected, sending, stop_requested, trace, malformed,
              save_failed, streak, stayed, received, published >>
loopVars == << monVars, ctlVars >>

NoCall == [fn |-> "none"]

\* The callers of the hardware controller that can have a call in flight
\* at once
MaxInFlight == 2
TaskIds == 1..MaxInFlight
Idle == [op |-> "none"]
NoReturn == [fn |-> "none", action |-> "", success |-> FALSE, error |-> ""]

\* No dispatch_drone has returned yet; n counts the calls.
NoDispatch ==
    [n |-> 0, latitude |-> 0, longitude |-> 0, success |-> FALSE,
     error |-> ""]

NoAnalysis == [error |-> TRUE, alerts |-> << >>]

\* A store left by earlier runs: empty, or one row short of a multiple of
\* AnalysisEvery, each row one tick after the other and the last one tick
\* before this run starts.
PriorRow(i, n) == SensorReading(i - n, Values(225, 72, 450, 20, 22))
PriorTable(n) == [i \in 1..n |-> PriorRow(i, n)]
PriorTables == { PriorTable(0), PriorTable(AnalysisEvery - 1) }

Init ==
    /\ lifespan_pc = "startup"
    /\ pc = "notcreated"
    /\ monitoring_active = FALSE
    /\ serial_open = FALSE
    /\ table \in PriorTables
    /\ now = 1
    /\ ticks = 0
    /\ reading = None
    /\ warnings = {}
    /\ recent_readings = << >>
    /\ analysis = NoAnalysis
    /\ active_connections = << >>
    /\ endpoints = [c \in ConnIds |-> "new"]
    /\ broadcast_pc = "idle"
    /\ iter = 1
    /\ disconnected = << >>
    /\ sending = {}
    /\ stop_requested = FALSE
    /\ trace = << >>
    /\ malformed = FALSE
    /\ save_failed = FALSE
    /\ streak = << >>
    /\ stayed = {}
    /\ received = {}
    /\ baseline_stats = EmptyBaseline
    /\ simple_baseline_stats = EmptyBaseline
    /\ call = NoCall
    /\ result = None
    /\ fed = [ml |-> << >>, simple |-> << >>]
    /\ scored = None
    /\ published = {}
    /\ hw_serial_open = FALSE
    /\ status = "disconnected"
    /\ valve_state = "U"
    /\ filter_position = "s"
    /\ valve_operation_count = 0
    /\ window_elapsed = FALSE
    /\ command_history = << >>
    /\ tasks = [t \in TaskIds |-> Idle]
    /\ sleepers = << >>
    /\ last_return = NoReturn
    /\ estop_clean = FALSE
    /\ drone_status = "available"
    /\ mission_counter = 0
    /\ active_missions = << >>
    /\ minute = 0
    /\ completions = {}
    /\ dispatch_result = NoDispatch

(***************************************************************************)
(* asyncio runs one coroutine at a time: another coroutine (an endpoint,   *)
(* the lifespan) runs only while the loop task is suspended in an await    *)
(* that yields: before its first step, in asyncio.sleep, in send_text, or  *)
(* after it has returned.                                                  *)
(***************************************************************************)
Suspended ==
    \/ pc \in {"notcreated", "created", "sleep", "backoff", "done"}
    \/ broadcast_pc = "send"

(***************************************************************************)
(* main.lifespan                                                           *)
(***************************************************************************)
\* Startup: initialize_system succeeds and the task is created (scheduled,
\* not yet run), or it raises and no task is created; then the yield.
LifespanStartup ==
    /\ lifespan_pc = "startup"
    /\ lifespan_pc' = "serving"
    /\ \/ pc' = "created"
       \/ pc' = pc
    /\ UNCHANGED << monitoring_active, stop_requested, serial_open, ticks,
                    now, trace, storeVars, tickVars, wsVars, logVars, libVars >>

\* Shutdown, after the yield: monitoring_active = False.
LifespanShutdown ==
    /\ lifespan_pc = "serving"
    /\ Suspended
    /\ lifespan_pc' = "shutdown"
    /\ monitoring_active' = FALSE
    /\ stop_requested' = TRUE
    /\ UNCHANGED << pc, serial_open, ticks, now, trace, storeVars, tickVars,
                    wsVars, logVars, libVars >>

(***************************************************************************)
(* sensors.SensorManager.connect_serial: the hardware is attached, before  *)
(* the loop's first reading.                                               *)
(***************************************************************************)
connect_serial ==
    /\ ~serial_open
    /\ pc \in {"notcreated", "created"}
    /\ serial_open' = TRUE
    /\ UNCHANGED << lifeVars, pc, ticks, now, trace, storeVars, tickVars,
                    wsVars, logVars, libVars >>

(***************************************************************************)
(* main.background_monitoring                                              *)
(***************************************************************************)
Stage(tag) == trace' = Append(trace, tag)

\* The task's first step: monitoring_active = True.
TaskStart ==
    /\ pc = "created"
    /\ monitoring_active' = TRUE
    /\ pc' = "top"
    /\ UNCHANGED << lifespan_pc, stop_requested, serial_open, ticks, now,
                    trace, storeVars, tickVars, wsVars, logVars, libVars >>

\* while monitoring_active: the locals of the iteration (and the history
\* variables of the tick) start afresh.
LoopTop ==
    /\ pc = "top"
    /\ \/ /\ monitoring_active
          /\ ticks < MaxTicks
          /\ pc' = "acquire"
          /\ ticks' = ticks + 1
          /\ trace' = << >>
          /\ reading' = None
          /\ warnings' = {}
          /\ recent_readings' = << >>
          /\ analysis' = NoAnalysis
          /\ malformed' = FALSE
          /\ save_failed' = FALSE
          /\ received' = {}
          /\ published' = {}
       \/ /\ ~monitoring_active
          /\ pc' = "done"
          /\ UNCHANGED << ticks, trace, tickVars, received, published >>
    /\ UNCHANGED << lifeVars, serial_open, now, storeVars, active_connections,
                    endpoints, broadcast_pc, iter, disconnected, sending,
                    stayed, logVars, compVars >>

\* reading = await sensor_manager.read_sensor_data(), then `if reading:`.
\* Without reading the loop goes to its tick sleep.
NoReading ==
    /\ reading' = None
    /\ malformed' = FALSE
    /\ UNCHANGED streak
    /\ Stage("acquire")
    /\ pc' = "sleep"

GotReading(v, bad) ==
    /\ reading' = SensorReading(now, v)
    /\ malformed' = bad
    /\ streak' = << >>
    /\ Stage("acquire")
    /\ pc' = "save"

read_sensor_data ==
    /\ pc = "acquire"
    /\ \/ /\ ~serial_open
          /\ \E v \in SimulatedValues : GotReading(v, FALSE)
       \/ /\ serial_open   \* the serial I/O raised, or the line was empty
          /\ NoReading
       \/ /\ serial_open
          /\ \E resp \in Responses :
               LET parsed == parse_sensor_response(resp)
               IN IF parsed.none
                  THEN NoReading
                  ELSE GotReading(parsed.values, ~WellFormedResponse(resp))
    /\ UNCHANGED << lifeVars, serial_open, ticks, now, storeVars, warnings,
                    recent_readings, analysis, save_failed, wsVars, libVars >>

\* A NaN is bound as NULL, which the NOT NULL columns refuse.
Insertable(r) ==
    /\ r.tds # NaN /\ r.ph # NaN /\ r.orp # NaN
    /\ r.turbidity # NaN /\ r.temperature # NaN

\* save_reading with the failure reported after the row went in.
save_reading_RowKeptOnFailure ==
    /\ pc = "save"
    /\ \/ /\ Insertable(reading)
          /\ table' = Append(table, reading)
          /\ save_failed' \in BOOLEAN
       \/ /\ save_failed' = TRUE
          /\ UNCHANGED table
    /\ Stage("persist")
    /\ pc' = "publish"
    /\ UNCHANGED << lifeVars, serial_open, ticks, now, reading, warnings,
                    recent_readings, analysis, malformed, wsVars, logVars, libVars >>

\* sensor_manager.save_reading(reading): the row is inserted, or sqlite
\* raises, which save_reading catches (and returns False).
save_reading ==
    /\ pc = "save"
    /\ \/ /\ Insertable(reading)
          /\ table' = Append(table, reading)
          /\ save_failed' = FALSE
       \/ /\ save_failed' = TRUE
          /\ UNCHANGED table
    /\ Stage("persist")
    /\ pc' = "publish"
    /\ UNCHANGED << lifeVars, serial_open, ticks, now, reading, warnings,
                    recent_readings, analysis, malformed, wsVars, logVars, libVars >>

\* iot_hub.publish_sensor_data(reading)
publish_sensor_data ==
    /\ pc = "publish"
    /\ Stage("iot_publish")
    /\ pc' = "validate"
    /\ UNCHANGED << lifeVars, serial_open, ticks, now, storeVars, tickVars,
                    wsVars, logVars, libVars >>

\* The iteration without its validation step.
ValidateAndWarn_Skipped ==
    /\ pc = "validate"
    /\ warnings' = {}
    /\ pc' = "ws_update"
    /\ UNCHANGED << lifeVars, serial_open, ticks, now, trace, storeVars,
                    reading, recent_readings, analysis, malformed,
                    save_failed, wsVars, logVars, libVars >>

\* The payload of IoTCommunicationHub.publish_alert(alert_type, message,
\* severity), without its message and timestamp.
publish_alert(alert_type, severity) ==
    [type |-> alert_type, severity |-> severity]

\* f"sensor_warning_{param}"
sensor_warning(param) ==
    CASE param = "tds" -> "sensor_warning_tds"
      [] param = "ph" -> "sensor_warning_ph"
      [] param = "orp" -> "sensor_warning_orp"
      [] param = "turbidity" -> "sensor_warning_turbidity"

\* warnings = validate_reading(reading), and one publish_alert of severity
\* "warning" per warning.
ValidateAndWarn ==
    /\ pc = "validate"
    /\ warnings' = validate_reading(reading)
    /\ published' = published \cup
           { publish_alert(sensor_warning(w[1]), "warning") : w \in warnings' }
    /\ trace' = trace \o << "validate" >>
                \o (IF warnings' # {} THEN << "warning_alerts" >> ELSE << >>)
    /\ pc' = "ws_update"
    /\ UNCHANGED << lifeVars, serial_open, ticks, now, storeVars, reading,
                    recent_readings, analysis, malformed, save_failed,
                    wsVars, logVars, compVars >>

(***************************************************************************)
(* main.WebSocketManager and main.websocket_endpoint                       *)
(***************************************************************************)
Members(seq) == { seq[i] : i \in 1..Len(seq) }
Without(seq, gone) == SelectSeq(seq, LAMBDA c : c \notin gone)

\* websocket_manager.connect(websocket): accept, then append.  Connection
\* ids are handed out in order.
WsConnect(c) ==
    /\ lifespan_pc = "serving"
    /\ Suspended
    /\ endpoints[c] = "new"
    /\ \A d \in ConnIds : d < c => endpoints[d] # "new"
    /\ endpoints' = [endpoints EXCEPT ![c] = "open"]
    /\ active_connections' = Append(active_connections, c)
    /\ UNCHANGED << lifeVars, pc, serial_open, ticks, now, trace, storeVars,
                    tickVars, broadcast_pc, iter, disconnected, sending,
                    stayed, received, logVars, libVars >>

\* The endpoint's receive raises: websocket_manager.disconnect(websocket).
WsDisconnect(c) ==
    /\ Suspended
    /\ endpoints[c] = "open"
    /\ endpoints' = [endpoints EXCEPT ![c] = "closed"]
    /\ active_connections' = Without(active_connections, {c})
    /\ stayed' = stayed \ {c}
    /\ UNCHANGED << lifeVars, pc, serial_open, ticks, now, trace, storeVars,
                    tickVars, broadcast_pc, iter, disconnected, sending,
                    received, logVars, libVars >>

\* await websocket_manager.broadcast(message), up to its first await:
\* returns at once without connections, else starts the for loop.
BroadcastCall(callPc, waitPc, nextPc, tag) ==
    /\ pc = callPc
    /\ Stage(tag)
    /\ received' = {}
    /\ IF active_connections = << >>
       THEN /\ pc' = nextPc
            /\ UNCHANGED << broadcast_pc, iter, disconnected, stayed >>
       ELSE /\ pc' = waitPc
            /\ broadcast_pc' = "loop"
            /\ iter' = 1
            /\ disconnected' = << >>
            /\ stayed' = Members(active_connections)
    /\ UNCHANGED << lifeVars, serial_open, ticks, now, storeVars, tickVars,
                    active_connections, endpoints, sending, logVars, libVars >>

\* for connection in self.active_connections: the list iterator reads the
\* element at its index, if the list (as it is now) has one; otherwise the
\* for loop ends, the connections in `disconnected` are removed and
\* broadcast returns.
BroadcastNext ==
    /\ broadcast_pc = "loop"
    /\ IF iter <= Len(active_connections)
       THEN /\ sending' = {active_connections[iter]}
            /\ iter' = iter + 1
            /\ broadcast_pc' = "send"
            /\ UNCHANGED active_connections
       ELSE /\ active_connections' =
                   Without(active_connections, Members(disconnected))
            /\ broadcast_pc' = "returned"
            /\ UNCHANGED << sending, iter >>
    /\ UNCHANGED << lifeVars, pc, serial_open, ticks, now, trace, storeVars,
                    tickVars, endpoints, disconnected, stayed, received,
                    logVars, libVars >>

\* await connection.send_text(...) returns.
SendOk ==
    /\ broadcast_pc = "send"
    /\ received' = received \cup sending
    /\ sending' = {}
    /\ broadcast_pc' = "loop"
    /\ UNCHANGED << lifeVars, pc, serial_open, ticks, now, trace, storeVars,
                    tickVars, active_connections, endpoints, iter,
                    disconnected, stayed, logVars, libVars >>

\* await connection.send_text(...) raises: caught, connection noted.
SendFail ==
    /\ broadcast_pc = "send"
    /\ disconnected' = disconnected \o
                       << CHOOSE c \in sending : TRUE >>
    /\ stayed' = stayed \ sending
    /\ sending' = {}
    /\ broadcast_pc' = "loop"
    /\ UNCHANGED << lifeVars, pc, serial_open, ticks, now, trace, storeVars,
                    tickVars, active_connections, endpoints, iter, received,
                    logVars, libVars >>

\* broadcast(...) started without being awaited.
BroadcastReturn_NotAwaited(waitPc, nextPc) ==
    /\ pc = waitPc
    /\ broadcast_pc' = IF broadcast_pc = "returned" THEN "idle"
                       ELSE broadcast_pc
    /\ pc' = nextPc
    /\ UNCHANGED << lifeVars, serial_open, ticks, now, trace, storeVars,
                    tickVars, active_connections, endpoints, iter,
                    disconnected, sending, stayed, received, logVars, libVars >>

\* The loop's await of broadcast(...) ends when broadcast has returned.
BroadcastReturn(waitPc, nextPc) ==
    /\ pc = waitPc
    /\ broadcast_pc = "returned"
    /\ broadcast_pc' = "idle"
    /\ pc' = nextPc
    /\ stayed' = {}
    /\ iter' = 1
    /\ disconnected' = << >>
    /\ UNCHANGED << lifeVars, serial_open, ticks, now, trace, storeVars,
                    tickVars, active_connections, endpoints, sending,
                    received, logVars, libVars >>

BroadcastSensorUpdate ==
    BroadcastCall("ws_update", "ws_update_wait", "count", "ws_sensor_update")
SensorUpdateDone == BroadcastReturn("ws_update_wait", "count")
BroadcastAnalysis ==
    BroadcastCall("ws_analysis", "ws_analysis_wait", "sleep", "ws_ml_analysis")
AnalysisDone == BroadcastReturn("ws_analysis_wait", "sleep")

(***************************************************************************)
(* main.background_monitoring, continued                                   *)
(***************************************************************************)
\* if len(sensor_manager.get_recent_readings(hours=1)) % 10 == 0
CountCheck ==
    /\ pc = "count"
    /\ LET n == Len(get_recent_readings(table, now, CountWindowHours))
       IN pc' = IF n % AnalysisEvery = 0 THEN "analysis" ELSE "sleep"
    /\ UNCHANGED << lifeVars, serial_open, ticks, now, trace, storeVars,
                    tickVars, wsVars, logVars, libVars >>

HighAlerts(a) == SelectSeq(a.alerts, LAMBDA x : x.severity = "high")

\* The inner try: the analysis of the last 24 hours and one publish_alert
\* per alert of severity "high"; or something in it raises, which the inner
\* handler logs.
RunAnalysis ==
    /\ pc = "analysis"
    /\ \/ /\ recent_readings' =
                 get_recent_readings(table, now, AnalysisWindowHours)
          /\ \E noise \in NoiseValues :
                 analysis' = analyze_water_quality(recent_readings', noise)
          /\ LET high == HighAlerts(analysis')
             IN published' = published \cup
                    { publish_alert(high[i].type, "high") :
                          i \in 1..Len(high) }
          /\ trace' = trace \o << "analysis" >>
                      \o (IF HighAlerts(analysis') # << >>
                          THEN << "high_alerts" >> ELSE << >>)
          /\ pc' = "ws_analysis"
       \/ /\ trace' = trace \o << "analysis" >>
          /\ pc' = "sleep"
          /\ UNCHANGED << recent_readings, analysis, published >>
    /\ UNCHANGED << lifeVars, serial_open, ticks, now, storeVars, reading,
                    warnings, malformed, save_failed, wsVars, logVars,
                    compVars >>

\* await asyncio.sleep(30) returns.
TickSleepDone ==
    /\ pc = "sleep"
    /\ now' = now + TickSleep \div TickSleep
    /\ streak' = IF reading = None THEN Append(streak, "tick") ELSE streak
    /\ trace' = Append(trace, "sleep")
    /\ pc' = "top"
    /\ UNCHANGED << lifeVars, serial_open, ticks, storeVars, tickVars,
                    wsVars, libVars >>

\* The iteration without its handler: the exception ends the task.
TickRaises_Propagates ==
    /\ pc \in {"save", "publish", "validate", "ws_update", "count"}
    /\ pc' = "done"
    /\ UNCHANGED << lifeVars, serial_open, ticks, now, trace, storeVars,
                    tickVars, wsVars, logVars, libVars >>

\* except Exception: a statement of the iteration raised something its
\* callee did not catch; the handler logs and sleeps 60 s.
RaisePcs == {"save", "publish", "validate", "ws_update", "count"}

TickRaises ==
    /\ pc \in RaisePcs
    /\ pc' = "backoff"
    /\ UNCHANGED << lifeVars, serial_open, ticks, now, trace, storeVars,
                    tickVars, wsVars, logVars, libVars >>

\* await asyncio.sleep(60) returns.
BackoffDone ==
    /\ pc = "backoff"
    /\ now' = now + BackoffSleep \div TickSleep
    /\ streak' = IF reading = None THEN Append(streak, "backoff") ELSE streak
    /\ trace' = Append(trace, "backoff")
    /\ pc' = "top"
    /\ UNCHANGED << lifeVars, serial_open, ticks, storeVars, tickVars,
                    wsVars, libVars >>

LoopStep ==
    \/ TaskStart
    \/ LoopTop
    \/ read_sensor_data
    \/ save_reading
    \/ publish_sensor_data
    \/ ValidateAndWarn
    \/ BroadcastSensorUpdate
    \/ BroadcastNext
    \/ SensorUpdateDone
    \/ CountCheck
    \/ RunAnalysis
    \/ BroadcastAnalysis
    \/ AnalysisDone
    \/ TickRaises
    \/ TickSleepDone
    \/ BackoffDone

Next ==
    \/ LifespanStartup
    \/ LifespanShutdown
    \/ connect_serial
    \/ LoopStep
    \/ SendOk
    \/ SendFail
    \/ \E c \in ConnIds : WsConnect(c)
    \/ \E c \in ConnIds : WsDisconnect(c)

Spec == Init /\ [][Next]_vars

(***************************************************************************)
(* The analysis components called on their own: the validator, the two     *)
(* anomaly detectors, the filter predictor and the quality scorer, each    *)
(* applied to arguments from the sets below.  A call is one step (none of  *)
(* them awaits), Return forgets it.                                        *)
(***************************************************************************)
MaxDays == 90
MaxHistory == 11

\* Values on both sides of every threshold of validate_reading,
\* predict_saturation and _calculate_quality_score.
TdsValues == { 49, 50, 149, 150, 180, 225, 300, 301, 600, 601 }
PhValues == { 64, 65, 72, 73, 85, 86 }
OrpValues == { 199, 200, 299, 300, 450, 600, 601, 800, 801 }
TurbidityValues == { 15, 20, 50, 51, 100, 101 }

TestReadings ==
    { SensorReading(1, Values(t, p, o, u, 22)) :
        t \in TdsValues, p \in PhValues, o \in OrpValues,
        u \in TurbidityValues }

\* The reading every history of the detectors repeats, but for its tds.
\* Its values are exact as floats.
HistoryValues(t) == Values(t, 75, 450, 25, 22)

\* Values on both sides of every threshold of the detectors, the values of
\* the histories and their neighbours.
DetectorReadings ==
    { SensorReading(1, Values(t, p, o, u, c)) :
        t \in { 49, 50, 200, 210, 500, 800, 801 },
        p \in { 59, 60, 75, 76, 90, 91 },
        o \in { 99, 100, 450, 900, 901 },
        u \in { 25, 26, 500, 501 },
        c \in { 9, 10, 22, 35, 36 } }

\* A history of n readings, most recent last: its tds steady at 200, or
\* swinging between 190 and 210 (mean 200 and std 10 when n is even).
History(n, pattern) ==
    [i \in 1..n |->
        SensorReading(i, HistoryValues(IF pattern = "steady" THEN 200
                                       ELSE IF i % 2 = 1 THEN 190 ELSE 210))]

Histories ==
    { History(n, pattern) : n \in { 0, 1, 9, 10, MaxHistory },
                            pattern \in { "steady", "swing" } }

\* The latest readings given to predict_saturation: on both sides of its
\* three tests.
LatestReadings ==
    { SensorReading(2, Values(t, p, 450, u, 22)) :
        t \in { 180, 300, 301 }, p \in { 64, 65, 73, 85, 86 },
        u \in { 15, 50, 51 } }

\* An earlier reading that fails all three tests.
FoulReading == SensorReading(1, Values(801, 91, 450, 501, 22))

ReadingLists ==
    { << >> } \cup { << r >> : r \in LatestReadings }
              \cup { << FoulReading, r >> : r \in LatestReadings }

\* days_since_replacement: on both sides of the 80 % mark (66, 67 days), at
\* the cap of 90 % (75 days) and beyond
Days == { 0, 1, 66, 67, 75, MaxDays }

Remember(history, last) == IF Len(history) >= 10 THEN history ELSE last

Call_validate_reading ==
    /\ call = NoCall
    /\ \E r \in TestReadings :
         /\ call' = [fn |-> "validate_reading", reading |-> r]
         /\ result' = validate_reading(r)
    /\ UNCHANGED << loopVars, baseline_stats, simple_baseline_stats, fed,
                    scored >>

\* ml_model.anomaly_detector.update_baseline(readings)
Call_update_baseline ==
    /\ call = NoCall
    /\ \E h \in Histories :
         /\ call' = [fn |-> "update_baseline", readings |-> h]
         /\ baseline_stats' = AnomalyDetector_update_baseline(baseline_stats, h)
         /\ fed' = [fed EXCEPT !.ml = Remember(h, @)]
    /\ result' = None
    /\ UNCHANGED << loopVars, simple_baseline_stats, scored >>

\* ml_model.anomaly_detector.detect_anomalies(reading)
Call_detect_anomalies ==
    /\ call = NoCall
    /\ \E r \in DetectorReadings :
         /\ call' = [fn |-> "detect_anomalies", reading |-> r]
         /\ result' = AnomalyDetector_detect_anomalies(baseline_stats, r)
    /\ UNCHANGED << loopVars, baseline_stats, simple_baseline_stats, fed,
                    scored >>

\* ml_model_simple.anomaly_detector.update_baseline(readings): logs only
Call_simple_update_baseline ==
    /\ call = NoCall
    /\ \E h \in Histories :
         /\ call' = [fn |-> "simple_update_baseline", readings |-> h]
         /\ fed' = [fed EXCEPT !.simple = Remember(h, @)]
    /\ result' = None
    /\ UNCHANGED << loopVars, baseline_stats, simple_baseline_stats, scored >>

\* ml_model_simple.anomaly_detector.detect_anomalies(reading), the detector
\* of the monitoring loop
Call_simple_detect_anomalies ==
    /\ call = NoCall
    /\ \E r \in DetectorReadings :
         /\ call' = [fn |-> "simple_detect_anomalies", reading |-> r]
         /\ result' = detect_anomalies(r)
    /\ UNCHANGED << loopVars, baseline_stats, simple_baseline_stats, fed,
                    scored >>

\* filter_predictor.predict_saturation(readings, 0, days_since_replacement)
Call_predict_saturation ==
    /\ call = NoCall
    /\ \E rs \in ReadingLists, d \in Days :
         /\ call' = [fn |-> "predict_saturation", readings |-> rs,
                     days_since_replacement |-> d]
         /\ \E noise \in NoiseValues :
               result' = predict_saturation(rs, d, noise)
    /\ UNCHANGED << loopVars, baseline_stats, simple_baseline_stats, fed,
                    scored >>

\* quality_optimizer._calculate_quality_score and _get_overall_status, as
\* get_optimization_recommendations calls them
Call_calculate_quality_score ==
    /\ call = NoCall
    /\ \E r \in TestReadings :
         /\ call' = [fn |-> "calculate_quality_score", reading |-> r]
         /\ LET score == calculate_quality_score(r.tds, r.ph, r.orp,
                                                 r.turbidity)
            IN result' = [scores |-> quality_scores(r.tds, r.ph, r.orp,
                                                    r.turbidity),
                          quality_score |-> score,
                          overall_status |-> get_overall_status(score)]
    /\ UNCHANGED << loopVars, baseline_stats, simple_baseline_stats, fed,
                    scored >>

\* Two readings whose first scoring is remembered: one inside every ideal
\* band, one outside all four.
ProbeReadings ==
    { SensorReading(1, Values(225, 72, 450, 20, 22)),
      SensorReading(1, Values(601, 86, 801, 101, 22)) }

\* The first scoring of a probe reading by a process whose detectors have
\* been given no history yet is the one remembered.
Scored(r, returned) ==
    IF scored = None /\ r \in ProbeReadings /\ fed = [ml |-> << >>,
                                                       simple |-> << >>]
    THEN Some([reading |-> r, result |-> returned])
    ELSE scored

\* A scorer that keeps state: once the detector has a baseline it grades on
\* the curve and reports every reading as "good".
Call_get_optimization_recommendations_OnTheCurve ==
    /\ call = NoCall
    /\ \E r \in TestReadings :
         /\ call' = [fn |-> "get_optimization_recommendations",
                     reading |-> r]
         /\ result' = IF baseline_stats["tds"].set
                      THEN [get_optimization_recommendations(r)
                                EXCEPT !.overall_status = "good"]
                      ELSE get_optimization_recommendations(r)
         /\ scored' = Scored(r, result')
    /\ UNCHANGED << loopVars, baseline_stats, simple_baseline_stats, fed >>

\* quality_optimizer.get_optimization_recommendations(reading)
Call_get_optimization_recommendations ==
    /\ call = NoCall
    /\ \E r \in TestReadings :
         /\ call' = [fn |-> "get_optimization_recommendations",
                     reading |-> r]
         /\ result' = get_optimization_recommendations(r)
         /\ scored' = Scored(r, result')
    /\ UNCHANGED << loopVars, baseline_stats, simple_baseline_stats, fed >>

\* The latest readings given to analyze_water_quality: on both sides of the
\* detector's limits and of the scorer's bands.
AnalysisReadings ==
    { SensorReading(2, Values(t, p, o, u, 22)) :
        t \in { 49, 225, 301, 801 }, p \in { 59, 72, 91 },
        o \in { 99, 450, 601, 901 }, u \in { 20, 101, 501 } }

\* analyze_water_quality(readings, filter_usage_hours,
\* days_since_replacement), as GET /ml/analysis calls it
Call_analyze_water_quality ==
    /\ call = NoCall
    /\ \E rs \in { << >> } \cup { << r >> : r \in AnalysisReadings },
          d \in Days :
         /\ call' = [fn |-> "analyze_water_quality", readings |-> rs,
                     days_since_replacement |-> d]
         /\ \E noise \in NoiseValues :
               result' = analyze_water_quality_report(rs, d, noise)
    /\ UNCHANGED << loopVars, baseline_stats, simple_baseline_stats, fed,
                    scored >>

Return ==
    /\ call # NoCall
    /\ call' = NoCall
    /\ result' = None
    /\ UNCHANGED << loopVars, baseline_stats, simple_baseline_stats, fed,
                    scored >>

NextAnalysis ==
    \/ Call_validate_reading
    \/ Call_update_baseline
    \/ Call_detect_anomalies
    \/ Call_simple_update_baseline
    \/ Call_simple_detect_anomalies
    \/ Call_predict_saturation
    \/ Call_calculate_quality_score
    \/ Call_get_optimization_recommendations
    \/ Call_analyze_water_quality
    \/ Return

\* The components and the controllers are called on a fresh process, its
\* store empty.
InitAnalysis == Init /\ table = PriorTable(0)

SpecAnalysis == InitAnalysis /\ [][NextAnalysis]_vars

(***************************************************************************)
(* controller.HardwareController.  main.py never calls connect, so its     *)
(* hardware_controller has no serial connection and every command goes     *)
(* through _simulate_command and the simulated _read_response, each of     *)
(* which awaits asyncio.sleep(0.1).  All these sleeps have one length, so   *)
(* they end in the order they began: `sleepers` is that queue and only its  *)
(* head wakes.  With a serial connection _send_command and _read_response   *)
(* block without awaiting and a call is one step.                          *)
(*                                                                         *)
(* The controller's fields are gathered in a record h, so that a call is a  *)
(* function from the record at its start, or at its wake-up, to the record  *)
(* at its next await or at its return.                                      *)
(***************************************************************************)
max_valve_operations_per_hour == 100

\* What the serial line does to one command: the write raises, the write
\* goes out and a line with "OK" comes back, or the write goes out and the
\* line is empty or holds something else.
HardwareOutcomes == { "writefail", "ack", "noack" }

Controller ==
    [serial |-> hw_serial_open, status |-> status, valve |-> valve_state,
     filter |-> filter_position, count |-> valve_operation_count,
     elapsed |-> window_elapsed, history |-> command_history,
     tasks |-> tasks, sleepers |-> sleepers, ret |-> last_return,
     clean |-> estop_clean]

Becomes(h) ==
    /\ hw_serial_open' = h.serial
    /\ status' = h.status
    /\ valve_state' = h.valve
    /\ filter_position' = h.filter
    /\ valve_operation_count' = h.count
    /\ window_elapsed' = h.elapsed
    /\ command_history' = h.history
    /\ tasks' = h.tasks
    /\ sleepers' = h.sleepers
    /\ last_return' = h.ret
    /\ estop_clean' = h.clean

\* `return {...}` of the call of caller t
Returns(h, t, fn, action, success, error) ==
    [h EXCEPT !.tasks[t] = Idle,
              !.ret = [fn |-> fn, action |-> action, success |-> success,
                       error |-> error]]

\* await asyncio.sleep(0.1) in the call of caller t
Sleeps(h, t, fn, action, at) ==
    [h EXCEPT !.tasks[t] = [op |-> fn, action |-> action, pc |-> at],
              !.sleepers = Append(@, t)]

\* _simulate_command after its sleep
simulate_command(h, command) ==
    [h EXCEPT !.history = << command >>,
              !.valve = IF command \in { "0", "C" } THEN command ELSE @,
              !.filter = IF command \in { "f", "b", "r" } THEN command
                         ELSE @]

\* _check_valve_safety_limits: the reset of the counter; the value it
\* returns is count < max_valve_operations_per_hour of the record returned
check_valve_safety_limits(h) ==
    IF h.elapsed THEN [h EXCEPT !.count = 0, !.elapsed = FALSE] ELSE h

\* control_valve / control_filter from `if response and "OK" in ...` on
Acknowledged(h, t, fn, action) ==
    Returns(IF fn = "control_valve"
            THEN [h EXCEPT !.valve = action, !.count = @ + 1,
                           !.status = "ready"]
            ELSE [h EXCEPT !.filter = action, !.status = "ready"],
            t, fn, action, TRUE, "")

\* the except branch of control_valve / control_filter
Failed(h, t, fn, action, error) ==
    Returns([h EXCEPT !.status = "error"], t, fn, action, FALSE, error)

\* control_valve / control_filter from `response = await
\* self._read_response(...)` on
read_response(h, t, fn, action, outcome) ==
    IF h.serial
    THEN IF outcome = "ack" THEN Acknowledged(h, t, fn, action)
         ELSE Failed(h, t, fn, action,
                     "Hardware did not acknowledge command")
    ELSE Sleeps(h, t, fn, action, "read_response")

\* control_valve / control_filter from `success = await
\* self._send_command(action)` on
send_command(h, t, fn, action, outcome) ==
    IF h.serial
    THEN IF outcome = "writefail"
         THEN Failed(h, t, fn, action, "Failed to send command")
         ELSE read_response([h EXCEPT !.history = << action >>], t, fn,
                            action, outcome)
    ELSE Sleeps(h, t, fn, action, "simulate_command")

\* control_valve(action) up to its first await or its return
control_valve(h, t, action, outcome) ==
    LET called == [h EXCEPT !.clean = FALSE]
        checked == check_valve_safety_limits(called)
    IN IF action \notin { "0", "C" }
       THEN Returns(called, t, "control_valve", action, FALSE,
                    "Invalid valve action")
       ELSE IF ~(checked.count < max_valve_operations_per_hour)
       THEN Returns(checked, t, "control_valve", action, FALSE,
                    "Valve operation limit exceeded")
       ELSE send_command([checked EXCEPT !.status = "busy"], t,
                         "control_valve", action, outcome)

\* control_filter(action) up to its first await or its return
control_filter(h, t, action, outcome) ==
    LET called == [h EXCEPT !.clean = FALSE]
    IN IF action \notin { "f", "b", "r" }
       THEN Returns(called, t, "control_filter", action, FALSE,
                    "Invalid filter action")
       ELSE send_command([called EXCEPT !.status = "busy"], t,
                         "control_filter", action, outcome)

\* emergency_stop from the assignments after its second _send_command on
Stopped(h, t) ==
    Returns([h EXCEPT !.valve = "C", !.filter = "s", !.status = "ready",
                      !.clean = TRUE],
            t, "emergency_stop", "", TRUE, "")

\* emergency_stop from `await self._send_command(ValveState.CLOSED.value)`
\* on; the value of that call is not looked at
close_valve(h, t, outcome) ==
    IF h.serial
    THEN Stopped(IF outcome = "writefail" THEN h
                 ELSE [h EXCEPT !.history = << "C" >>], t)
    ELSE Sleeps(h, t, "emergency_stop", "", "simulate_close")

\* emergency_stop() up to its first await or its return
emergency_stop(h, t, outcome) ==
    IF h.serial
    THEN IF outcome = "writefail"
         THEN Returns(h, t, "emergency_stop", "", FALSE,
                      "Failed to send emergency stop command")
         ELSE close_valve([h EXCEPT !.history = << "STOP" >>], t, outcome)
    ELSE Sleeps(h, t, "emergency_stop", "", "simulate_stop")

\* The call of the caller at the head of the sleepers, from the end of its
\* sleep to its next await or its return.
wake(h, outcome) ==
    LET t == Head(h.sleepers)
        task == h.tasks[t]
        woken == [h EXCEPT !.sleepers = Tail(@)]
    IN CASE task.pc = "simulate_command" ->
              read_response(simulate_command(woken, task.action), t,
                            task.op, task.action, outcome)
         [] task.pc = "read_response" ->
              Acknowledged(woken, t, task.op, task.action)
         [] task.pc = "simulate_stop" ->
              close_valve(simulate_command(woken, "STOP"), t, outcome)
         [] task.pc = "simulate_close" ->
              Stopped(simulate_command(woken, "C"), t)

\* HardwareController.connect: serial.Serial raises, or the port opens and
\* the STATUS command is answered or not.
connect(h, outcome) ==
    CASE outcome = "writefail" -> [h EXCEPT !.status = "disconnected"]
      [] outcome = "ack" ->
           [h EXCEPT !.serial = TRUE, !.history = << "STATUS" >>,
                     !.status = "ready"]
      [] outcome = "noack" ->
           [h EXCEPT !.serial = TRUE, !.history = << "STATUS" >>,
                     !.status = "disconnected"]

ValveActions == { "0", "C", "X" }
FilterActions == { "f", "r", "x" }

Call_control_valve ==
    /\ \E t \in TaskIds, action \in ValveActions,
          outcome \in HardwareOutcomes :
         /\ tasks[t] = Idle
         /\ Becomes(control_valve(Controller, t, action, outcome))
    /\ UNCHANGED << monVars, analysisVars, droneVars >>

Call_control_filter ==
    /\ \E t \in TaskIds, action \in FilterActions,
          outcome \in HardwareOutcomes :
         /\ tasks[t] = Idle
         /\ Becomes(control_filter(Controller, t, action, outcome))
    /\ UNCHANGED << monVars, analysisVars, droneVars >>

Call_emergency_stop ==
    /\ \E t \in TaskIds, outcome \in HardwareOutcomes :
         /\ tasks[t] = Idle
         /\ Becomes(emergency_stop(Controller, t, outcome))
    /\ UNCHANGED << monVars, analysisVars, droneVars >>

Call_connect ==
    /\ ~hw_serial_open
    /\ \E outcome \in HardwareOutcomes :
         Becomes(connect(Controller, outcome))
    /\ UNCHANGED << monVars, analysisVars, droneVars >>

\* The sleep that began first ends.
Wake ==
    /\ sleepers # << >>
    /\ \E outcome \in HardwareOutcomes : Becomes(wake(Controller, outcome))
    /\ UNCHANGED << monVars, analysisVars, droneVars >>

\* The wall clock passes valve_count_reset_time + 3600 s.
HourPasses ==
    /\ ~window_elapsed
    /\ window_elapsed' = TRUE
    /\ UNCHANGED << hw_serial_open, status, valve_state, filter_position,
                    valve_operation_count, command_history, tasks, sleepers,
                    last_return, estop_clean >>
    /\ UNCHANGED << monVars, analysisVars, droneVars >>

\* The valve as the API server drives it: no serial connection.
NextValve ==
    \/ Call_control_valve
    \/ Wake
    \/ HourPasses

SpecValve == InitAnalysis /\ [][NextValve]_vars

\* Valve, filter and emergency stop together, with or without a serial
\* connection, for as long as the valve has been operated fewer than
\* MaxValveOperations times.
MaxValveOperations == 2

NextStop ==
    \/ valve_operation_count < MaxValveOperations /\ Call_control_valve
    \/ valve_operation_count < MaxValveOperations /\ Call_control_filter
    \/ valve_operation_count < MaxValveOperations /\ Call_emergency_stop
    \/ Call_connect
    \/ Wake

SpecStop == InitAnalysis /\ [][NextStop]_vars

(***************************************************************************)
(* controller.DroneController.  dispatch_drone does not await: a call is   *)
(* one step.  Coordinates are in whole degrees.                            *)
(***************************************************************************)
MaxDispatches == 3

Latitudes == { 0 - 91, 0 - 90, 41, 90, 91 }
Longitudes == { 0 - 181, 0 - 180, 0 - 74, 180, 181 }

\* datetime.now().replace(minute=datetime.now().minute + 15) raises
\* ValueError unless the new minute is in 0..59
ReplaceMinuteRaises(m) == ~(m + 15 \in 0..59)

\* dispatch_drone(latitude, longitude, mission_type): the drone's fields
\* after the call and what it returns
dispatch_drone(d, latitude, longitude) ==
    IF d.drone_status # "available"
    THEN [d EXCEPT !.returned = [success |-> FALSE,
                                 error |-> "Drone not available"]]
    ELSE IF ~(0 - 90 <= latitude /\ latitude <= 90)
            \/ ~(0 - 180 <= longitude /\ longitude <= 180)
    THEN [d EXCEPT !.returned = [success |-> FALSE,
                                 error |-> "Invalid coordinates"]]
    ELSE LET counted == [d EXCEPT !.mission_counter = @ + 1]
         IN IF ReplaceMinuteRaises(d.minute)
            THEN [counted EXCEPT
                      !.returned = [success |-> FALSE,
                                    error |-> "minute must be in 0..59"]]
            ELSE [counted EXCEPT
                      !.active_missions =
                          Append(@, [id |-> counted.mission_counter,
                                     status |-> "dispatched"]),
                      !.drone_status = "dispatched",
                      !.completions = @ \cup { counted.mission_counter },
                      !.returned = [success |-> TRUE, error |-> ""]]

Drone ==
    [drone_status |-> drone_status, mission_counter |-> mission_counter,
     active_missions |-> active_missions, minute |-> minute,
     completions |-> completions,
     returned |-> [success |-> FALSE, error |-> ""]]

Call_dispatch_drone ==
    /\ dispatch_result.n < MaxDispatches
    /\ \E latitude \in Latitudes, longitude \in Longitudes :
         LET d == dispatch_drone(Drone, latitude, longitude)
         IN /\ drone_status' = d.drone_status
            /\ mission_counter' = d.mission_counter
            /\ active_missions' = d.active_missions
            /\ completions' = d.completions
            /\ dispatch_result' =
                   [n |-> dispatch_result.n + 1, latitude |-> latitude,
                    longitude |-> longitude, success |-> d.returned.success,
                    error |-> d.returned.error]
    /\ UNCHANGED << minute, monVars, analysisVars, hwVars >>

\* _simulate_mission_completion(mission_id) after its asyncio.sleep(300)
simulate_mission_completion ==
    /\ \E id \in completions :
         /\ completions' = completions \ { id }
         /\ IF \E i \in 1..Len(active_missions) : active_missions[i].id = id
            THEN /\ active_missions' =
                        [i \in 1..Len(active_missions) |->
                            IF active_missions[i].id = id
                            THEN [active_missions[i] EXCEPT
                                      !.status = "completed"]
                            ELSE active_missions[i]]
                 /\ drone_status' = "available"
            ELSE UNCHANGED << active_missions, drone_status >>
    /\ UNCHANGED << mission_counter, minute, dispatch_result, monVars,
                    analysisVars, hwVars >>

\* The wall clock enters its next minute.
MinutePasses ==
    /\ minute' = (minute + 1) % 60
    /\ UNCHANGED << drone_status, mission_counter, active_missions,
                    completions, dispatch_result, monVars, analysisVars,
                    hwVars >>

NextDrone ==
    \/ Call_dispatch_drone
    \/ simulate_mission_completion
    \/ MinutePasses

SpecDrone == InitAnalysis /\ [][NextDrone]_vars

(***************************************************************************)
(* Properties                                                              *)
(***************************************************************************)
StageSet == Members(trace)
Before(a, b) ==
    \A i \in 1..Len(trace) :
        trace[i] = b => \E j \in 1..(i-1) : trace[j] = a

\* C1: the monitoring loop ends only by observing monitoring_active false
\* at the top of an iteration after a stop was requested; no failure inside
\* an iteration (an exception of the iteration, of the analysis, a failed
\* save, a failed send) ends it.
C1_LoopEndsOnlyOnStop ==
    pc = "done" => (stop_requested /\ ~monitoring_active)

\* The loop is back at the top of an iteration, still running, after an
\* iteration that raised and backed off.
C1_Witness ==
    /\ pc = "top"
    /\ trace # << >>
    /\ Last(trace) = "backoff"
    /\ monitoring_active
    /\ ~stop_requested

\* C2: after two consecutive ticks without a reading the loop has done
\* exactly two backoff (60 s) sleeps, has persisted and fanned out nothing
\* on them, and has not ended.
C2_TwoFailuresTwoBackoffs ==
    Len(streak) >= 2 =>
        /\ streak[1] = "backoff"
        /\ streak[2] = "backoff"
        /\ StageSet \subseteq {"acquire", "sleep", "backoff"}
        /\ pc # "done" \/ stop_requested

\* C3: once the stop is requested no further iteration is started.
C3_NoIterationAfterStop ==
    [][(stop_requested /\ pc' = "acquire") => pc = "acquire"]_vars

\* C4: whenever the loop is at the top of an iteration or acquiring a
\* reading, no fan-out of an earlier tick is still in progress.
C4_TicksNeverOverlap ==
    pc \in {"top", "acquire"} => (broadcast_pc = "idle" /\ sending = {})

\* The loop is about to start the next iteration after a tick whose
\* reading was persisted, published and delivered to a subscriber.
C4_Witness ==
    /\ pc = "top"
    /\ monitoring_active
    /\ ticks < MaxTicks
    /\ {"persist", "iot_publish", "ws_sensor_update"} \subseteq StageSet
    /\ received # {}

Rank(tag) ==
    CASE tag = "acquire" -> 1
      [] tag = "persist" -> 2
      [] tag = "iot_publish" -> 3
      [] tag = "validate" -> 4
      [] tag = "warning_alerts" -> 5
      [] tag = "ws_sensor_update" -> 6
      [] tag = "analysis" -> 7
      [] tag = "high_alerts" -> 8
      [] tag = "ws_ml_analysis" -> 9
      [] tag = "sleep" -> 10
      [] tag = "backoff" -> 10

Needs(a, b) == b \in StageSet => a \in StageSet

C6_SlowSubscriberNeverStalls ==
    broadcast_pc = "send" => ENABLED LoopStep

\* C7: when a broadcast returns, every connection that was connected from
\* its start to its end and whose send did not fail has received the
\* message, and every connection whose send failed has been removed.
C7_FailureIsolated ==
    broadcast_pc = "returned" =>
        /\ stayed \subseteq received
        /\ Members(disconnected) \cap Members(active_connections) = {}

C9_MalformedRejected ==
    malformed =>
        /\ reading \notin Rows(table)
        /\ "iot_publish" \notin StageSet
        /\ "ws_sensor_update" \notin StageSet

\* C10: the reading the analysis reports as the latest is the most recent
\* one of the history it was given.
C10_LatestIsMostRecent ==
    (pc = "ws_analysis" /\ Len(recent_readings) >= 2) =>
        \A r \in Members(recent_readings) :
            r.timestamp <= analysis.current_readings.timestamp

(***************************************************************************)
(* Properties of the analysis components                                   *)
(***************************************************************************)
\* The warnings the safe ranges ask for: ph [6.5, 8.5], tds [50, 600],
\* turbidity <= 1.0, orp [200, 800].
SafeRangeWarnings(r) ==
    { w \in { "ph", "tds", "turbidity", "orp" } \X { "low", "high" } :
        \/ w = <<"ph", "low">> /\ r.ph < 65
        \/ w = <<"ph", "high">> /\ r.ph > 85
        \/ w = <<"tds", "low">> /\ r.tds < 50
        \/ w = <<"tds", "high">> /\ r.tds > 600
        \/ w = <<"turbidity", "high">> /\ r.turbidity > 100
        \/ w = <<"orp", "low">> /\ r.orp < 200
        \/ w = <<"orp", "high">> /\ r.orp > 800 }

OutOfAbsoluteRange(p, v) ==
    CASE p = "tds" -> v < 50 \/ v > 800
      [] p = "ph" -> v < 60 \/ v > 90
      [] p = "orp" -> v < 100 \/ v > 900
      [] p = "turbidity" -> v > 500
      [] p = "temperature" -> v < 10 \/ v > 35

\* C12: as long as every update_baseline so far had fewer than 10 readings,
\* baseline_stats has no statistics for any parameter, and detect_anomalies
\* flags a parameter only for being out of its absolute range.  (Both
\* detectors.)
C12_ShortHistoryLeavesBaselineUnset ==
    /\ fed.ml = << >> =>
          /\ baseline_stats = EmptyBaseline
          /\ call.fn = "detect_anomalies" =>
                \A p \in ParamSet :
                    result.anomalies[p] # "none" =>
                        /\ result.anomalies[p] = "range"
                        /\ OutOfAbsoluteRange(p, call.reading[p])
    /\ fed.simple = << >> =>
          /\ simple_baseline_stats = EmptyBaseline
          /\ call.fn = "simple_detect_anomalies" =>
                \A p \in Members(result) :
                    OutOfAbsoluteRange(p, call.reading[p])

\* update_baseline has run on nine readings, after nothing but such
\* updates, and the baseline is as it was: unset.
C12_Witness ==
    /\ call.fn = "update_baseline"
    /\ Len(call.readings) = 9
    /\ fed.ml = << >>
    /\ baseline_stats = EmptyBaseline

\* C13: once the detector of the monitoring loop has been given a baseline
\* (an update_baseline with 10 or more readings), it flags every parameter
\* whose value passes the absolute range check and lies more than 3 std
\* from the mean or more than 2 IQR from the median of that baseline.
C13_PipelineFlagsOutliers ==
    (call.fn = "simple_detect_anomalies" /\ fed.simple # << >>) =>
        \A p \in Members(Params) :
            LET stats ==
                  AnomalyDetector_update_baseline(EmptyBaseline,
                                                  fed.simple)[p]
                v == call.reading[p]
            IN (/\ ~OutOfAbsoluteRange(p, v)
                /\ Outlier(stats, v) \/ Deviates(stats, v))
               => p \in Members(result)

\* C14: each of the five parameters, when out of its absolute range, gets
\* an anomaly, and that anomaly is the absolute-range one (no statistical
\* message replaces it).  (Both detectors.)
C14_AbsoluteRangeAlwaysFlagged ==
    /\ call.fn = "detect_anomalies" =>
          \A p \in ParamSet :
              OutOfAbsoluteRange(p, call.reading[p]) =>
                  result.anomalies[p] = "range"
    /\ call.fn = "simple_detect_anomalies" =>
          \A p \in ParamSet :
              OutOfAbsoluteRange(p, call.reading[p]) =>
                  p \in Members(result)

ZeroSpread(stats) ==
    /\ stats.set
    /\ stats.n * stats.sumsq = stats.sum * stats.sum
    /\ stats.q75x4 = stats.q25x4

\* C15: with a zero-spread baseline for a parameter (std = 0, q75 = q25)
\* detect_anomalies raises nothing, does not flag a value equal to the
\* baseline's mean, and flags every value that differs from it.
C15_ZeroSpreadBaseline ==
    call.fn = "detect_anomalies" =>
        /\ ~result.raised
        /\ \A p \in ParamSet :
              ZeroSpread(baseline_stats[p]) =>
                  (result.anomalies[p] = "none"
                     <=> baseline_stats[p].n * call.reading[p]
                            = baseline_stats[p].sum)

\* detect_anomalies has run with a baseline of ten readings of tds 200, on
\* a reading of tds 210 (flagged) whose ph is the baseline's (not flagged).
C15_Witness ==
    /\ call.fn = "detect_anomalies"
    /\ ZeroSpread(baseline_stats["tds"])
    /\ call.reading.tds = 210 /\ result.anomalies["tds"] = "deviation"
    /\ call.reading.ph = 75 /\ result.anomalies["ph"] = "none"

\* C16: the saturation_percent of every result of predict_saturation lies
\* in [0, 100].
C16_SaturationClamped ==
    (call.fn = "predict_saturation" /\ ~result.error) =>
        (0 <= result.saturation_percent /\ result.saturation_percent <= 1000)

\* min(days x 1.2, 90), plus 10 when tds > 300, plus 15 when turbidity >
\* 0.5, plus 5 when ph is outside [6.5, 8.5], at most 100; in tenths.
HeuristicSaturation(latest, days) ==
    Min2(Min2(days * 12, 900)
         + (IF latest.tds > 300 THEN 100 ELSE 0)
         + (IF latest.turbidity > 50 THEN 150 ELSE 0)
         + (IF latest.ph < 65 \/ latest.ph > 85 THEN 50 ELSE 0),
         1000)

\* C17: the saturation predict_saturation reports is the one its inputs
\* determine (so two calls with the same inputs agree), and for
\* days_since_replacement = 0 and the clean latest reading (tds 180,
\* turbidity 0.15, ph 7.3) it is 0 with replacement_needed false.
C17_SaturationIsAFunctionOfInputs ==
    (call.fn = "predict_saturation" /\ ~result.error) =>
        /\ result.saturation_percent =
              HeuristicSaturation(Last(call.readings),
                                  call.days_since_replacement)
        /\ (/\ call.days_since_replacement = 0
            /\ Last(call.readings).tds = 180
            /\ Last(call.readings).turbidity = 15
            /\ Last(call.readings).ph = 73)
           => (result.saturation_percent = 0 /\ ~result.replacement_needed)

\* C18: in every result of predict_saturation replacement_needed holds
\* exactly when the reported saturation_percent is at least 80,
\* days_until_replacement is 0 exactly then and otherwise is
\* (80 - saturation) / 1.5 (to the tenth the report is rounded to), and
\* for days_since_replacement = 90 replacement_needed holds.
C18_ReplacementMatchesReport ==
    (call.fn = "predict_saturation" /\ ~result.error) =>
        /\ result.replacement_needed <=> result.saturation_percent >= 800
        /\ result.days_until_replacement = 0
              <=> result.saturation_percent >= 800
        /\ result.saturation_percent < 800 =>
              Abs(15 * result.days_until_replacement
                  - 10 * (800 - result.saturation_percent)) < 15
        /\ call.days_since_replacement = 90 => result.replacement_needed

\* C19: predict_saturation answers an empty list with the error result;
\* and an iteration of the loop whose analyze_water_quality got an empty
\* history has the error result, without alerts, publishes no alert, never
\* takes the exception path and does not end the loop.
C19_EmptyHistoryIsNoAnalysis ==
    /\ \A d \in Days, n \in NoiseValues :
          predict_saturation(<< >>, d, n) = [error |-> TRUE]
    /\ ("ws_ml_analysis" \in StageSet /\ recent_readings = << >>) =>
          /\ analysis.error /\ analysis.alerts = << >>
          /\ "high_alerts" \notin StageSet
          /\ "backoff" \notin StageSet
          /\ pc \in {"ws_analysis_wait", "sleep", "top", "done"}
          /\ pc = "done" => stop_requested

\* An iteration whose analysis got an empty history (the store was empty
\* and the save failed) has slept its tick; the loop is at its top again.
C19_Witness ==
    /\ pc = "top"
    /\ monitoring_active
    /\ recent_readings = << >>
    /\ "ws_ml_analysis" \in StageSet
    /\ Last(trace) = "sleep"

InBand(i, r) ==
    CASE i = 1 -> 150 <= r.tds /\ r.tds <= 300
      [] i = 2 -> 65 <= r.ph /\ r.ph <= 85
      [] i = 3 -> 300 <= r.orp /\ r.orp <= 600
      [] i = 4 -> r.turbidity <= 100

AnalysisReturned ==
    call.fn = "analyze_water_quality" /\ result.error = FALSE

HasAlert(alerts, type) == \E i \in 1..Len(alerts) : alerts[i].type = type

\* C21: the analysis holds a "water_quality" alert, of severity medium,
\* exactly when the composite score it reports is below 70, which is
\* exactly when the status it reports is "poor" or "critical"; the status is
\* excellent from 90, good from 80, acceptable from 70, poor from 60 and
\* critical below.
C21_QualityAlertIffPoorOrCritical ==
    AnalysisReturned =>
        LET score == result.optimization.quality_score
            grade == result.optimization.overall_status
        IN /\ HasAlert(result.alerts, "water_quality") <=> score < 700
           /\ score < 700 <=> grade \in { "poor", "critical" }
           /\ \A i \in 1..Len(result.alerts) :
                 result.alerts[i].type = "water_quality" =>
                     result.alerts[i].severity = "medium"
           /\ grade = "excellent" <=> score >= 900
           /\ grade = "good" <=> score >= 800 /\ score < 900
           /\ grade = "acceptable" <=> score >= 700 /\ score < 800
           /\ grade = "poor" <=> score >= 600 /\ score < 700
           /\ grade = "critical" <=> score < 600

\* An analysis of a poor reading, with its quality alert.
C21_Witness ==
    /\ AnalysisReturned
    /\ result.optimization.overall_status = "poor"
    /\ HasAlert(result.alerts, "water_quality")

Concerns(text) ==
    CASE text \in { "TDS high - increase RO filtration",
                    "TDS low - add mineral cartridge" } -> 1
      [] text \in { "pH high - activate acid injection",
                    "pH low - activate alkaline injection" } -> 2
      [] text = "ORP low - increase disinfection" -> 3
      [] text = "Turbidity high - backwash filters" -> 4
      [] OTHER -> 0

Adjusts(action) ==
    CASE action.type = "filter_adjustment" -> 1
      [] action.type = "chemical_dosing" -> 2
      [] action.type = "disinfection" -> 3
      [] action.type = "filter_maintenance" -> 4
      [] OTHER -> 0

\* C23: get_optimization_recommendations returns a recommendation and an
\* action for every parameter of tds, ph, orp, turbidity outside its ideal
\* band, on either side, and the single "within optimal ranges"
\* recommendation, with no action, exactly when the four are in band, which
\* is exactly when the composite score is 100.
C23_RecommendationPerParameterOutOfBand ==
    call.fn = "get_optimization_recommendations" =>
        LET recs == result.recommendations
            acts == result.actions
            out == { i \in 1..4 : ~InBand(i, call.reading) }
            optimal == recs = << "Water quality within optimal ranges" >>
        IN /\ \A i \in out :
                 /\ \E j \in 1..Len(recs) : Concerns(recs[j]) = i
                 /\ \E j \in 1..Len(acts) : Adjusts(acts[j]) = i
           /\ optimal <=> out = { }
           /\ optimal => acts = << >>
           /\ out = { } <=> result.quality_score = 1000

\* The group of an alert: filter alerts 1, anomaly alerts 2, quality alerts 3.
Group(alert) ==
    CASE alert.type \in { "filter_replacement", "filter_warning" } -> 1
      [] alert.type = "sensor_anomaly" -> 2
      [] alert.type = "water_quality" -> 3
      [] OTHER -> 4

\* C24: in the alert list of an analysis the filter alerts come first, then
\* one "sensor_anomaly" alert of severity high for each parameter the
\* detector flagged, in the detector's order of parameters, then the
\* quality alert; no alert follows an alert of a later group.
C24_AlertsInGroupOrder ==
    AnalysisReturned =>
        LET alerts == result.alerts
            anomaly_alerts ==
                SelectSeq(alerts, LAMBDA a : a.type = "sensor_anomaly")
        IN /\ \A i, j \in 1..Len(alerts) :
                 i < j => Group(alerts[i]) <= Group(alerts[j])
           /\ [i \in 1..Len(anomaly_alerts) |-> anomaly_alerts[i].param]
                  = detect_anomalies(Last(call.readings))
           /\ detect_anomalies(Last(call.readings))
                  = SelectSeq(Params,
                              LAMBDA p : \E i \in 1..Len(anomaly_alerts) :
                                             anomaly_alerts[i].param = p)
           /\ \A i \in 1..Len(anomaly_alerts) :
                 anomaly_alerts[i].severity = "high"
           /\ \A i \in 1..Len(alerts) : Group(alerts[i]) \in 1..3

\* An analysis with a filter alert, two anomaly alerts and a quality alert.
C24_Witness ==
    /\ AnalysisReturned
    /\ Len(result.alerts) = 4
    /\ Group(result.alerts[1]) = 1
    /\ result.alerts[2].param = "tds"
    /\ result.alerts[3].param = "orp"
    /\ Group(result.alerts[4]) = 3

\* C25: an analysis holds a "filter_replacement" alert of severity high
\* when replacement is needed, otherwise a "filter_warning" alert of
\* severity medium when the saturation is above 60, and no filter alert
\* when the saturation is 60 or below; never more than one filter alert.
C25_FilterAlertBySaturation ==
    AnalysisReturned =>
        LET filter_alerts ==
                SelectSeq(result.alerts, LAMBDA a : Group(a) = 1)
            kinds == [i \in 1..Len(filter_alerts) |->
                         << filter_alerts[i].type,
                            filter_alerts[i].severity >>]
            needed == result.filter_analysis.replacement_needed
            saturation == result.filter_analysis.saturation_percent
        IN /\ needed => kinds = << << "filter_replacement", "high" >> >>
           /\ (~needed /\ saturation > 600) =>
                  kinds = << << "filter_warning", "medium" >> >>
           /\ (~needed /\ saturation <= 600) => kinds = << >>
           /\ Len(filter_alerts) <= 1

(***************************************************************************)
(* The loop's alerts and the cadence of its analysis                       *)
(***************************************************************************)
\* C26: every alert the loop creates or publishes has a severity of the
\* scale low, medium, high, critical.
C26_SeverityOfTheScale ==
    LET scale == { "low", "medium", "high", "critical" }
    IN /\ \A a \in published : a.severity \in scale
       /\ \A i \in 1..Len(analysis.alerts) :
             analysis.alerts[i].severity \in scale

\* C27: the loop goes on to the analysis on exactly the ticks at whose
\* count check the number of readings persisted so far is a positive
\* multiple of 10, whether or not the tick's own reading was persisted.
C27_AnalysisOnEveryTenthReading ==
    [][pc = "count" =>
          (pc' = "analysis" <=>
               (Len(table) > 0 /\ Len(table) % AnalysisEvery = 0))]_vars

(***************************************************************************)
(* The hardware controller                                                 *)
(***************************************************************************)
\* C28: valve_operation_count never exceeds max_valve_operations_per_hour,
\* also with several control_valve calls in flight, and a control_valve
\* called with the limit reached returns the limit error without sending a
\* command or changing valve_state.
C28_ValveLimitHolds ==
    [][/\ valve_operation_count' <= max_valve_operations_per_hour
       /\ (/\ last_return'.error = "Valve operation limit exceeded"
           /\ sleepers' = sleepers)
          => UNCHANGED << valve_state, command_history >>]_vars

\* C29: once emergency_stop has returned success, valve_state is CLOSED and
\* filter_position is STOP for as long as no control_valve or
\* control_filter call has begun since that return, whatever calls were in
\* flight when the emergency stop ran.
C29_StoppedStaysStopped ==
    estop_clean => valve_state = "C" /\ filter_position = "s"

(***************************************************************************)
(* The drone controller                                                    *)
(***************************************************************************)
\* C30: a dispatch_drone with a latitude in [-90, 90] and a longitude in
\* [-180, 180], called while drone_status is "available", succeeds at every
\* minute of the hour, records one new mission of status "dispatched" and
\* leaves the drone unavailable; a dispatch_drone that returns an error
\* leaves mission_counter, active_missions and drone_status as they were.
C30_DispatchSucceedsOrChangesNothing ==
    [][dispatch_result'.n # dispatch_result.n =>
         LET r == dispatch_result'
         IN /\ (/\ drone_status = "available"
                /\ 0 - 90 <= r.latitude /\ r.latitude <= 90
                /\ 0 - 180 <= r.longitude /\ r.longitude <= 180)
               => /\ r.success
                  /\ Len(active_missions') = Len(active_missions) + 1
                  /\ Last(active_missions').status = "dispatched"
                  /\ SubSeq(active_missions', 1, Len(active_missions))
                         = active_missions
                  /\ mission_counter' = mission_counter + 1
                  /\ drone_status' # "available"
            /\ ~r.success =>
                   UNCHANGED << mission_counter, active_missions,
                                drone_status >>]_vars

====
